---- MODULE Spec2Model ----
(***************************************************************************)
(* Model of src/Task.py: the SQLite tables historical_sales,               *)
(* sales_patterns and sales_forecast, and the main script that loads the   *)
(* two CSV files, runs load_and_predict_weekly_sales on a test file and    *)
(* then visualize_sales_forecast.                                          *)
(*                                                                         *)
(* A table is a record [x, cols]: x is the first column (skipped by        *)
(* columns[1:]), cols the remaining columns in column order, each a        *)
(* sequence with one value per row.  The j-th pattern column is named      *)
(* <<"r", j>>, the i-th historical column <<"y", i>>.  A table that        *)
(* read_sales_table cannot read (it returns None) is None.                 *)
(*                                                                         *)
(* The x column of historical_sales is read by neither                     *)
(* identify_best_sales_patterns nor load_and_predict_weekly_sales (the     *)
(* subtraction of two columns aligns on the row index), so the historical  *)
(* x column always holds the row numbers.  Cell values are integers.       *)
(***************************************************************************)
EXTENDS Integers, Sequences, FiniteSets, TLC

\* ---------------------------------------------------------------- bounds
MaxRows == 2      \* rows of a table, and the x values 1..MaxRows
MaxSeries == 2    \* series columns of a table (after the x column)
MaxY == 1         \* cell values are 0..MaxY, observation y is 0..MaxY+1
MaxObs == 2       \* rows of the test file

VARIABLES
    historical_sales,   \* table "historical_sales" of the database, or None
    sales_patterns,     \* table "sales_patterns" of the database, or None
    sales_forecast,     \* table "sales_forecast" of the database, or None
    pc,                 \* position in the main script / in load_and_predict_weekly_sales
    test_sales_df,      \* the test file as read by pd.read_csv (local of the run)
    best_patterns,      \* local best_patterns of the run
    forecast_results,   \* local forecast_results of the run
    log,                \* messages passed to logging, in order
    propagated          \* exception that left a call of the script towards its caller

vars == <<historical_sales, sales_patterns, sales_forecast, pc, test_sales_df,
          best_patterns, forecast_results, log, propagated>>

\* ---------------------------------------------------------------- values
None == <<>>
Some(v) == <<v>>
Get(opt) == opt[1]

WeekCol(i) == <<"y", i>>
PatternCol(j) == <<"r", j>>
ColIndex(col) == col[2]

Cells == 0 .. MaxY
XValues == 1 .. MaxRows
ObsY == 0 .. (MaxY + 1)

\* float('inf'): larger than every deviation |y - pattern value| of the model
Inf == (MaxY + 1) + 1

Abs(a) == IF a < 0 THEN -a ELSE a
Min2(a, b) == IF a <= b THEN a ELSE b
Max2(a, b) == IF a >= b THEN a ELSE b

ColumnsOf(n, k) == [1 .. k -> [1 .. n -> Cells]]

PatternTables ==
    UNION { { [x |-> xs, cols |-> cs] : xs \in [1 .. n -> XValues], cs \in ColumnsOf(n, k) }
            : n \in 0 .. MaxRows, k \in 0 .. MaxSeries }

HistoricalTables ==
    UNION { { [x |-> [i \in 1 .. n |-> i], cols |-> cs] : cs \in ColumnsOf(n, k) }
            : n \in 0 .. MaxRows, k \in 0 .. MaxSeries }

NRows(t) == Len(t.x)
NCols(t) == Len(t.cols)

\* Rows of a test file: a row carries the fields of the file's columns.
RowsOver(fields) ==
    IF fields = {"x", "y"} THEN { [x |-> a, y |-> b] : a \in XValues, b \in ObsY }
    ELSE IF fields = {"x"} THEN { [x |-> a] : a \in XValues }
    ELSE IF fields = {"y"} THEN { [y |-> b] : b \in ObsY }
    ELSE { [other |-> 0] }

TestFiles ==
    UNION { { [columns |-> f, rows |-> rs] : rs \in [1 .. n -> RowsOver(f)] }
            : f \in SUBSET {"x", "y"}, n \in 0 .. MaxObs }

\* ---------------------------------------------------------------- log messages
LoadedMsg == "Data loaded into table"
FailedLoadMsg == "Failed loading CSV"
MissingDataMsg == "Missing historical or pattern sales data."
MissingColumnsMsg == "Validation error: Missing required columns 'x' or 'y'"
MissingTablesMsg == "Validation error: Missing pattern/historical data."
ProcessingErrorMsg == "Error processing sales forecast"
CompletedMsg == "Weekly sales forecast completed and stored."
VisualizeMissingMsg == "Missing datasets for visualization."

\* ---------------------------------------------------------------- identify_best_sales_patterns
\* np.sum((a - b) ** 2) of two columns: the subtraction aligns on the row index,
\* rows present in only one column give NaN, and the sum skips NaN.
RECURSIVE SumSquares(_, _, _)
SumSquares(a, b, n) ==
    IF n = 0 THEN 0
    ELSE (a[n] - b[n]) * (a[n] - b[n]) + SumSquares(a, b, n - 1)

SquaredError(a, b) == SumSquares(a, b, Min2(Len(a), Len(b)))

\* errors: one entry per pattern column, in column order
Errors(week, pattern_df) ==
    [j \in 1 .. NCols(pattern_df) |-> SquaredError(week, pattern_df.cols[j])]

\* MinKeyFrom keeping the largest error (max for min)
RECURSIVE MinKeyFromLargest(_, _, _)
MinKeyFromLargest(errors, j, best) ==
    IF j > Len(errors) THEN best
    ELSE MinKeyFromLargest(errors, j + 1, IF errors[j] > errors[best] THEN j ELSE best)

\* MinKeyFrom replacing the key on an equal error too (<= for <)
RECURSIVE MinKeyFromLatest(_, _, _)
MinKeyFromLatest(errors, j, best) ==
    IF j > Len(errors) THEN best
    ELSE MinKeyFromLatest(errors, j + 1, IF errors[j] <= errors[best] THEN j ELSE best)

\* min(errors, key=errors.get): the first key of the smallest value
RECURSIVE MinKeyFrom(_, _, _)
MinKeyFrom(errors, j, best) ==
    IF j > Len(errors) THEN best
    ELSE MinKeyFrom(errors, j + 1, IF errors[j] < errors[best] THEN j ELSE best)

MinKey(errors) == MinKeyFrom(errors, 2, 1)

\* The dict best_patterns in insertion order, as a sequence of items.
BestPatternsOf(training_sales_df, pattern_df) ==
    [i \in 1 .. NCols(training_sales_df) |->
        [week_col |-> WeekCol(i),
         pattern_col |-> PatternCol(MinKey(Errors(training_sales_df.cols[i], pattern_df)))]]

\* The call: value returned, whether the error of line 88 was logged, and the
\* exception that leaves the function (min() of an empty dict is a ValueError).
identify_best_sales_patterns(training, pattern) ==
    IF training = None \/ pattern = None
    THEN [raised |-> "none", logged |-> TRUE, value |-> <<>>]
    ELSE IF NCols(Get(training)) > 0 /\ NCols(Get(pattern)) = 0
    THEN [raised |-> "ValueError", logged |-> FALSE, value |-> <<>>]
    ELSE [raised |-> "none", logged |-> FALSE,
          value |-> BestPatternsOf(Get(training), Get(pattern))]

\* ---------------------------------------------------------------- the inner loop of the run
\* max(abs(a - b)): the builtin max over the aligned difference.  An empty
\* difference raises ValueError; rows of only one column are NaN and sit at the
\* tail, where `item > max` is false, so they are skipped, unless the first
\* item is NaN already, and then the result is NaN.
RECURSIVE MaxAbsUpTo(_, _, _)
MaxAbsUpTo(a, b, n) ==
    IF n = 1 THEN Abs(a[1] - b[1])
    ELSE Max2(MaxAbsUpTo(a, b, n - 1), Abs(a[n] - b[n]))

MaxAbsDifference(a, b) ==
    IF Max2(Len(a), Len(b)) = 0 THEN [tag |-> "ValueError", v |-> 0]
    ELSE IF Min2(Len(a), Len(b)) = 0 THEN [tag |-> "nan", v |-> 0]
    ELSE [tag |-> "num", v |-> MaxAbsUpTo(a, b, Min2(Len(a), Len(b)))]

\* WithinMaxDev with a strict comparison (< for <=)
WithinMaxDevStrict(deviation, m) == deviation * deviation < 2 * m * m

\* deviation <= m * np.sqrt(2) for integers deviation, m >= 0
WithinMaxDev(deviation, m) == deviation * deviation <= 2 * m * m

\* pattern_df.loc[pattern_df["x"] == x_val, pattern_col].values
PatternSalesVals(pattern_df, x_val, pattern_col) ==
    LET Matches(i) == pattern_df.x[i] = x_val
        rows == SelectSeq([i \in 1 .. NRows(pattern_df) |-> i], Matches)
    IN  [k \in 1 .. Len(rows) |-> pattern_df.cols[ColIndex(pattern_col)][rows[k]]]

\* MatchFrom replacing the match on an equal deviation too (<= for <)
RECURSIVE MatchFromOnEqual(_, _, _, _, _, _)
MatchFromOnEqual(k, acc, row, patterns, pattern_df, training_df) ==
    IF k > Len(patterns) THEN acc
    ELSE
      LET week_col == patterns[k].week_col
          pattern_col == patterns[k].pattern_col
      IN
      IF ColIndex(pattern_col) \notin 1 .. NCols(pattern_df)
      THEN MatchFromOnEqual(k + 1, acc, row, patterns, pattern_df, training_df)
      ELSE
        LET max_dev == MaxAbsDifference(training_df.cols[ColIndex(week_col)],
                                        pattern_df.cols[ColIndex(pattern_col)])
            pattern_sales_vals == PatternSalesVals(pattern_df, row.x, pattern_col)
            deviation == Abs(row.y - pattern_sales_vals[1])
            better == /\ Len(pattern_sales_vals) > 0
                      /\ max_dev.tag = "num"
                      /\ WithinMaxDev(deviation, max_dev.v)
                      /\ deviation <= acc.min_dev
        IN
        IF max_dev.tag = "ValueError"
        THEN [acc EXCEPT !.raised = "ValueError"]
        ELSE MatchFromOnEqual(k + 1,
                       IF better
                       THEN [acc EXCEPT !.best_match = pattern_col, !.min_dev = deviation]
                       ELSE acc,
                       row, patterns, pattern_df, training_df)

\* One pass of `for week_col, pattern_col in best_patterns.items()` from item k
\* on; acc holds best_match, min_dev and the exception raised, if any.
RECURSIVE MatchFrom(_, _, _, _, _, _)
MatchFrom(k, acc, row, patterns, pattern_df, training_df) ==
    IF k > Len(patterns) THEN acc
    ELSE
      LET week_col == patterns[k].week_col
          pattern_col == patterns[k].pattern_col
      IN
      IF ColIndex(pattern_col) \notin 1 .. NCols(pattern_df)
      THEN MatchFrom(k + 1, acc, row, patterns, pattern_df, training_df)
      ELSE
        LET max_dev == MaxAbsDifference(training_df.cols[ColIndex(week_col)],
                                        pattern_df.cols[ColIndex(pattern_col)])
            pattern_sales_vals == PatternSalesVals(pattern_df, row.x, pattern_col)
            deviation == Abs(row.y - pattern_sales_vals[1])
            better == /\ Len(pattern_sales_vals) > 0
                      /\ max_dev.tag = "num"
                      /\ WithinMaxDev(deviation, max_dev.v)
                      /\ deviation < acc.min_dev
        IN
        IF max_dev.tag = "ValueError"
        THEN [acc EXCEPT !.raised = "ValueError"]
        ELSE MatchFrom(k + 1,
                       IF better
                       THEN [acc EXCEPT !.best_match = pattern_col, !.min_dev = deviation]
                       ELSE acc,
                       row, patterns, pattern_df, training_df)

\* The body of `for _, row in test_sales_df.iterrows()` for one row.
ClassifyRow(row, patterns, pattern_df, training_df) ==
    MatchFrom(1, [best_match |-> None, min_dev |-> Inf, raised |-> "none"],
              row, patterns, pattern_df, training_df)

ForecastRecord(row, m) ==
    [x |-> row.x, y |-> row.y, delta_y |-> m.min_dev, ideal_function |-> m.best_match]

\* ---------------------------------------------------------------- the database before the script runs
\* What an earlier complete run of the script left in the database file.
EarlierTable == [x |-> <<1>>, cols |-> <<<<0>>>>]
EarlierForecast ==
    <<[x |-> 1, y |-> 0, delta_y |-> 0, ideal_function |-> PatternCol(1)]>>

Init ==
    /\ \/ /\ historical_sales = None
          /\ sales_patterns = None
          /\ sales_forecast = None
       \/ /\ historical_sales = Some(EarlierTable)
          /\ sales_patterns = Some(EarlierTable)
          /\ sales_forecast = Some(EarlierForecast)
    /\ pc = "load_historical"
    /\ test_sales_df = None
    /\ best_patterns = <<>>
    /\ forecast_results = <<>>
    /\ log = <<>>
    /\ propagated = "none"

\* ---------------------------------------------------------------- load_csv_to_db
\* predictor.load_csv_to_db("train.csv", "historical_sales")
LoadHistorical ==
    /\ pc = "load_historical"
    /\ \/ \E df \in HistoricalTables :
             /\ historical_sales' = Some(df)
             /\ log' = Append(log, LoadedMsg)
       \/ /\ UNCHANGED historical_sales
          /\ log' = Append(log, FailedLoadMsg)
    /\ pc' = "load_patterns"
    /\ UNCHANGED <<sales_patterns, sales_forecast, test_sales_df, best_patterns,
                   forecast_results, propagated>>

\* predictor.load_csv_to_db("ideal.csv", "sales_patterns")
LoadPatterns ==
    /\ pc = "load_patterns"
    /\ \/ \E df \in PatternTables :
             /\ sales_patterns' = Some(df)
             /\ log' = Append(log, LoadedMsg)
       \/ /\ UNCHANGED sales_patterns
          /\ log' = Append(log, FailedLoadMsg)
    /\ pc' = "predict"
    /\ UNCHANGED <<historical_sales, sales_forecast, test_sales_df, best_patterns,
                   forecast_results, propagated>>

\* ---------------------------------------------------------------- load_and_predict_weekly_sales
\* ReadTestFile checking column x only
ReadTestFileCheckingX ==
    /\ pc = "predict"
    /\ \/ /\ test_sales_df' = None          \* pd.read_csv raises: no such file
          /\ log' = Append(log, ProcessingErrorMsg)
          /\ pc' = "visualize"
       \/ \E file \in TestFiles :
             /\ test_sales_df' = Some(file)
             /\ IF "x" \notin file.columns
                THEN /\ log' = Append(log, MissingColumnsMsg)
                     /\ pc' = "visualize"
                ELSE /\ log' = log
                     /\ pc' = "read_tables"
    /\ UNCHANGED <<historical_sales, sales_patterns, sales_forecast, best_patterns,
                   forecast_results, propagated>>

\* Lines 113-117: read the test file and check its columns.
ReadTestFile ==
    /\ pc = "predict"
    /\ \/ /\ test_sales_df' = None          \* pd.read_csv raises: no such file
          /\ log' = Append(log, ProcessingErrorMsg)
          /\ pc' = "visualize"
       \/ \E file \in TestFiles :
             /\ test_sales_df' = Some(file)
             /\ IF "x" \notin file.columns \/ "y" \notin file.columns
                THEN /\ log' = Append(log, MissingColumnsMsg)
                     /\ pc' = "visualize"
                ELSE /\ log' = log
                     /\ pc' = "read_tables"
    /\ UNCHANGED <<historical_sales, sales_patterns, sales_forecast, best_patterns,
                   forecast_results, propagated>>

\* ReadTables without the None check of lines 123-124
ReadTablesUnchecked ==
    /\ pc = "read_tables"
    /\ LET r == identify_best_sales_patterns(historical_sales, sales_patterns)
           logged == IF r.logged THEN Append(log, MissingDataMsg) ELSE log
       IN  IF r.raised # "none"
           THEN /\ log' = Append(logged, ProcessingErrorMsg)
                /\ pc' = "visualize"
                /\ UNCHANGED best_patterns
           ELSE /\ best_patterns' = r.value
                /\ log' = logged
                /\ pc' = "rows"
    /\ UNCHANGED <<historical_sales, sales_patterns, sales_forecast, test_sales_df,
                   forecast_results, propagated>>

\* Lines 119-126: best_patterns, pattern_df, training_df and the None check.
\* pattern_df and training_df are read here and the database does not change
\* until the run ends, so the rows below read the tables of the database.
ReadTables ==
    /\ pc = "read_tables"
    /\ LET r == identify_best_sales_patterns(historical_sales, sales_patterns)
           logged == IF r.logged THEN Append(log, MissingDataMsg) ELSE log
       IN  IF r.raised # "none"
           THEN /\ log' = Append(logged, ProcessingErrorMsg)
                /\ pc' = "visualize"
                /\ UNCHANGED best_patterns
           ELSE /\ best_patterns' = r.value
                /\ IF sales_patterns = None \/ historical_sales = None
                   THEN /\ log' = Append(logged, MissingTablesMsg)
                        /\ pc' = "visualize"
                   ELSE /\ log' = logged
                        /\ pc' = "rows"
    /\ UNCHANGED <<historical_sales, sales_patterns, sales_forecast, test_sales_df,
                   forecast_results, propagated>>

\* ClassifyNextRow storing the results after every row
ClassifyNextRowStoring ==
    /\ pc = "rows"
    /\ Len(forecast_results) < Len(Get(test_sales_df).rows)
    /\ LET row == Get(test_sales_df).rows[Len(forecast_results) + 1]
           m == ClassifyRow(row, best_patterns, Get(sales_patterns), Get(historical_sales))
       IN  IF m.raised # "none"
           THEN /\ log' = Append(log, ProcessingErrorMsg)
                /\ pc' = "visualize"
                /\ UNCHANGED forecast_results
           ELSE /\ forecast_results' = Append(forecast_results, ForecastRecord(row, m))
                /\ UNCHANGED <<log, pc>>
    /\ sales_forecast' = Some(forecast_results')
    /\ UNCHANGED <<historical_sales, sales_patterns, test_sales_df,
                   best_patterns, propagated>>

\* Lines 127-143: one iteration of the loop over the rows of the test file.
ClassifyNextRow ==
    /\ pc = "rows"
    /\ Len(forecast_results) < Len(Get(test_sales_df).rows)
    /\ LET row == Get(test_sales_df).rows[Len(forecast_results) + 1]
           m == ClassifyRow(row, best_patterns, Get(sales_patterns), Get(historical_sales))
       IN  IF m.raised # "none"
           THEN /\ log' = Append(log, ProcessingErrorMsg)
                /\ pc' = "visualize"
                /\ UNCHANGED forecast_results
           ELSE /\ forecast_results' = Append(forecast_results, ForecastRecord(row, m))
                /\ UNCHANGED <<log, pc>>
    /\ UNCHANGED <<historical_sales, sales_patterns, sales_forecast, test_sales_df,
                   best_patterns, propagated>>

\* Lines 145-147: the loop is over; the results replace table sales_forecast.
StoreForecast ==
    /\ pc = "rows"
    /\ Len(forecast_results) = Len(Get(test_sales_df).rows)
    /\ sales_forecast' = Some(forecast_results)
    /\ log' = Append(log, CompletedMsg)
    /\ pc' = "visualize"
    /\ UNCHANGED <<historical_sales, sales_patterns, test_sales_df, best_patterns,
                   forecast_results, propagated>>

\* ---------------------------------------------------------------- visualize_sales_forecast
\* Lines 159-167: the tables are read, and best_patterns computed again; the
\* call of identify_best_sales_patterns is not guarded, so its exception leaves
\* visualize_sales_forecast.  The chart itself is not modelled.
visualize_sales_forecast ==
    /\ pc = "visualize"
    /\ IF historical_sales = None \/ sales_patterns = None \/ sales_forecast = None
       THEN /\ log' = Append(log, VisualizeMissingMsg)
            /\ propagated' = "none"
       ELSE /\ log' = log
            /\ propagated' = identify_best_sales_patterns(historical_sales, sales_patterns).raised
    /\ pc' = "exit"
    /\ UNCHANGED <<historical_sales, sales_patterns, sales_forecast, test_sales_df,
                   best_patterns, forecast_results>>

Next ==
    \/ LoadHistorical
    \/ LoadPatterns
    \/ ReadTestFile
    \/ ReadTables
    \/ ClassifyNextRow
    \/ StoreForecast
    \/ visualize_sales_forecast

Spec == Init /\ [][Next]_vars

\* ================================================================ properties
\* What the properties say of the tables, stated without the operators above.
training_df == Get(historical_sales)
pattern_df == Get(sales_patterns)
TablesPresent == historical_sales # None /\ sales_patterns # None
NonEmptyTable(t) == NRows(t) >= 1 /\ NCols(t) >= 1

\* error(h, r): the sum over the rows both columns have of the squared difference
RECURSIVE SumOverRows(_, _, _)
SumOverRows(a, b, rows) ==
    IF rows = {} THEN 0
    ELSE LET i == CHOOSE i \in rows : TRUE
         IN  (a[i] - b[i]) * (a[i] - b[i]) + SumOverRows(a, b, rows \ {i})

ErrorOf(h, r) ==
    SumOverRows(training_df.cols[h], pattern_df.cols[r],
                DOMAIN training_df.cols[h] \cap DOMAIN pattern_df.cols[r])

\* the pattern column index item k of best_patterns names
Chosen(k) == ColIndex(best_patterns[k].pattern_col)

\* ---------------------------------------------------------------- C1
\* C1: for a non-empty historical table and a non-empty pattern table with the
\* same rows, best_patterns has exactly the historical series as keys, one item
\* per series, and the curve of each series has an error no larger than the
\* error of any other curve of the pattern table.
C1_BestPatternsMinimiseError ==
    (/\ pc = "rows"
     /\ NonEmptyTable(training_df) /\ NonEmptyTable(pattern_df)
     /\ NRows(training_df) = NRows(pattern_df))
    => /\ Len(best_patterns) = NCols(training_df)
       /\ \A i \in 1 .. NCols(training_df) : best_patterns[i].week_col = WeekCol(i)
       /\ \A i \in 1 .. NCols(training_df) :
             /\ Chosen(i) \in 1 .. NCols(pattern_df)
             /\ \A r \in 1 .. NCols(pattern_df) : ErrorOf(i, Chosen(i)) <= ErrorOf(i, r)

\* A series whose best curve is the second one, strictly better than the first.
C1_Witness ==
    /\ pc = "rows"
    /\ NRows(training_df) = MaxRows /\ NRows(pattern_df) = MaxRows
    /\ NCols(training_df) = 2 /\ NCols(pattern_df) = 2
    /\ Chosen(1) = 2 /\ Chosen(2) = 1
    /\ ErrorOf(1, 2) < ErrorOf(1, 1)
    /\ ErrorOf(2, 1) < ErrorOf(2, 2)

\* ---------------------------------------------------------------- C8
\* C8: when several curves have the smallest error for a series, the series is
\* mapped to the one that comes first in the pattern table's column order.
C8_TieGoesToEarliestColumn ==
    (pc = "rows") =>
       \A i \in DOMAIN best_patterns :
          LET minimal == { r \in 1 .. NCols(pattern_df) :
                             \A q \in 1 .. NCols(pattern_df) : ErrorOf(i, r) <= ErrorOf(i, q) }
          IN  /\ Chosen(i) \in minimal
              /\ \A r \in minimal : Chosen(i) <= r

\* Two different curves tie with a non-zero error and the first one is taken.
C8_Witness ==
    /\ pc = "rows"
    /\ NCols(training_df) >= 1 /\ NCols(pattern_df) = 2
    /\ NRows(training_df) = NRows(pattern_df)
    /\ pattern_df.cols[1] # pattern_df.cols[2]
    /\ ErrorOf(1, 1) = ErrorOf(1, 2) /\ ErrorOf(1, 1) > 0
    /\ Chosen(1) = 1

\* ---------------------------------------------------------------- C2
\* the rows of the pattern table whose x is x_val
RowsAt(x_val) == { i \in 1 .. NRows(pattern_df) : pattern_df.x[i] = x_val }

\* the value of pattern column r at x_val: that of the first row whose x is x_val
ValueAt(r, x_val) ==
    pattern_df.cols[r][CHOOSE i \in RowsAt(x_val) : \A q \in RowsAt(x_val) : i <= q]

DeviationOf(rec, k) == Abs(rec.y - ValueAt(Chosen(k), rec.x))

\* d <= sqrt(2) * max_i |historical[h][i] - pattern[r][i]| over the rows both have:
\* some row i has d * d <= 2 * (historical[h][i] - pattern[r][i]) ^ 2
WithinToleranceOf(d, k) ==
    LET h == training_df.cols[ColIndex(best_patterns[k].week_col)]
        r == pattern_df.cols[Chosen(k)]
    IN  \E i \in DOMAIN h \cap DOMAIN r : d * d <= 2 * (h[i] - r[i]) * (h[i] - r[i])

\* the items of best_patterns that are accepted candidates for a record
Candidates(rec) ==
    { k \in DOMAIN best_patterns :
        /\ RowsAt(rec.x) # {}
        /\ WithinToleranceOf(DeviationOf(rec, k), k) }

\* C2: a record with an assignment names the curve of an accepted candidate (its
\* x is in the pattern table's x column and its deviation is within
\* sqrt(2) * max|historical - pattern| of that series); delta_y is the smallest
\* deviation of all accepted candidates; and among the accepted candidates of
\* that deviation the curve of the earliest historical column is assigned.
C2_AssignmentIsBestAcceptedCandidate ==
    \A n \in DOMAIN forecast_results :
       LET rec == forecast_results[n]
           smallest == { k \in Candidates(rec) : DeviationOf(rec, k) = rec.delta_y }
       IN  rec.ideal_function # None =>
             /\ smallest # {}
             /\ \A k \in Candidates(rec) : rec.delta_y <= DeviationOf(rec, k)
             /\ \E k \in smallest :
                   /\ \A q \in smallest : k <= q
                   /\ rec.ideal_function = best_patterns[k].pattern_col

\* Two series with different curves are both accepted with the same deviation,
\* a third value of the tolerance rejects, and the first series' curve is assigned.
C2_Witness ==
    /\ pc = "rows"
    /\ Len(best_patterns) = 2
    /\ Chosen(1) # Chosen(2)
    /\ \E n \in DOMAIN forecast_results :
          LET rec == forecast_results[n] IN
          /\ Candidates(rec) = {1, 2}
          /\ DeviationOf(rec, 1) = DeviationOf(rec, 2)
          /\ rec.delta_y > 0
          /\ rec.ideal_function = best_patterns[1].pattern_col

\* ---------------------------------------------------------------- C9
\* item k of best_patterns pairs a series with a curve equal to it at every row
Identical(k) ==
    training_df.cols[ColIndex(best_patterns[k].week_col)] = pattern_df.cols[Chosen(k)]

\* C9: when the curve chosen for a series is identical to the series, an
\* observation on the grid whose y is the curve's value at its x is assigned
\* with deviation 0, and an observation whose y differs from the curve's value
\* is not accepted through that series (its tolerance is 0): a record assigned
\* with a positive deviation always has a series that chose the assigned curve
\* and differs from it.
C9_IdenticalCurveAcceptsOnlyItsOwnValues ==
    \A n \in DOMAIN forecast_results :
       LET rec == forecast_results[n] IN
       /\ \A k \in DOMAIN best_patterns :
             (/\ Identical(k)
              /\ RowsAt(rec.x) # {}
              /\ rec.y = ValueAt(Chosen(k), rec.x))
             => (rec.delta_y = 0 /\ rec.ideal_function # None)
       /\ (rec.ideal_function # None /\ rec.delta_y > 0)
          => \E k \in DOMAIN best_patterns :
                /\ best_patterns[k].pattern_col = rec.ideal_function
                /\ ~Identical(k)

\* Scenario 2: one series identical to its curve; the observation with the
\* curve's value is assigned with deviation 0, the one next to it gets nothing.
C9_Witness ==
    /\ pc = "rows"
    /\ Len(best_patterns) = 1 /\ Identical(1)
    /\ NRows(pattern_df) = MaxRows
    /\ Len(forecast_results) = 2
    /\ forecast_results[1].x = forecast_results[2].x
    /\ forecast_results[1].y = ValueAt(Chosen(1), forecast_results[1].x)
    /\ forecast_results[1].delta_y = 0
    /\ forecast_results[1].ideal_function = best_patterns[1].pattern_col
    /\ forecast_results[2].y = forecast_results[1].y + 1
    /\ forecast_results[2].delta_y = Inf
    /\ forecast_results[2].ideal_function = None

\* ---------------------------------------------------------------- C6
\* the columns of the test file, once it is read
FileRead == test_sales_df # None
LacksColumn == FileRead /\ ~({"x", "y"} \subseteq Get(test_sales_df).columns)
Occurrences(msg) == Cardinality({ i \in DOMAIN log : log[i] = msg })
Logged(msg) == Occurrences(msg) > 0
PastColumnCheck == pc \in {"read_tables", "rows", "visualize", "exit"}

InRun == pc \in {"predict", "read_tables", "rows"}
RunFailed ==
    Logged(MissingColumnsMsg) \/ Logged(MissingTablesMsg) \/ Logged(ProcessingErrorMsg)

\* C10: table sales_forecast changes only in the step that stores the results,
\* which a run takes at most once and only when every row of the test file has
\* been classified; every other step of a run, the failing ones included, leaves
\* sales_forecast as it was, and no step of a run changes historical_sales or
\* sales_patterns.
C10_ForecastStoredOnceAtTheEnd ==
    [][ /\ (sales_forecast' # sales_forecast \/ Occurrences(CompletedMsg)' # Occurrences(CompletedMsg))
           => /\ pc = "rows" /\ pc' = "visualize"
              /\ ~RunFailed /\ ~RunFailed'
              /\ Occurrences(CompletedMsg) = 0 /\ Occurrences(CompletedMsg)' = 1
              /\ Len(forecast_results) = Len(Get(test_sales_df).rows)
              /\ sales_forecast' = Some(forecast_results)
        /\ (RunFailed' /\ ~RunFailed) => (InRun /\ sales_forecast' = sales_forecast)
        /\ RunFailed => sales_forecast' = sales_forecast
        /\ pc \in {"visualize", "exit"} => pc' \in {"visualize", "exit"}
        /\ InRun => (historical_sales' = historical_sales /\ sales_patterns' = sales_patterns)
      ]_vars

\* A run over the tables and the forecast of an earlier run fails at a row, and
\* the earlier forecast is still the stored one.
C10_Witness ==
    /\ pc = "visualize"
    /\ Logged(ProcessingErrorMsg)
    /\ FileRead /\ ~LacksColumn
    /\ Len(Get(test_sales_df).rows) = MaxObs
    /\ TablesPresent
    /\ Len(best_patterns) >= 1
    /\ sales_forecast = Some(EarlierForecast)

\* ---------------------------------------------------------------- C5
RunOver == pc \in {"visualize", "exit"}
FileAccepted == FileRead /\ ~LacksColumn

C3_OneRecordPerObservation ==
    (RunOver /\ FileAccepted /\ TablesPresent)
    => /\ Logged(CompletedMsg)
       /\ sales_forecast # None
       /\ Len(Get(sales_forecast)) = Len(Get(test_sales_df).rows)
       /\ \A n \in DOMAIN Get(sales_forecast) :
             /\ Get(sales_forecast)[n].x = Get(test_sales_df).rows[n].x
             /\ Get(sales_forecast)[n].y = Get(test_sales_df).rows[n].y

\* ---------------------------------------------------------------- C4
\* C4: an observation whose x is not in the pattern table's x column has no
\* candidate; the run still stores its record, with no curve and the undefined
\* deviation, and the batch does not fail; and a stored record has a deviation
\* other than the undefined one exactly when it has a curve.
C4_NoCandidateStillGivesARecord ==
    (RunOver /\ FileAccepted /\ TablesPresent)
    => /\ \A n \in DOMAIN Get(test_sales_df).rows :
             RowsAt(Get(test_sales_df).rows[n].x) = {}
             => /\ ~RunFailed
                /\ sales_forecast # None
                /\ n \in DOMAIN Get(sales_forecast)
                /\ Get(sales_forecast)[n].ideal_function = None
                /\ Get(sales_forecast)[n].delta_y = Inf
       /\ \A n \in DOMAIN forecast_results :
             (forecast_results[n].delta_y \in 0 .. (Inf - 1))
             <=> (forecast_results[n].ideal_function # None)

\* ---------------------------------------------------------------- C7
\* C7: when load_and_predict_weekly_sales has returned from a run that raised
\* InvalidSalesDataError inside (a missing column, a missing table), its caller
\* has been given that error.
C7_ErrorsReachTheCaller ==
    (pc = "visualize" /\ (Logged(MissingColumnsMsg) \/ Logged(MissingTablesMsg)))
    => propagated # "none"

====
